---- MODULE Spec2Model ----
(***************************************************************************)
(* Model of src/CTT-OMEGA-POINT.py: the class CTT_OmegaPoint and its       *)
(* layer loop execute_temporal_singularity.                                *)
(*                                                                         *)
(* Numbers.  The program computes in IEEE doubles; the model computes in   *)
(* fixed point with six decimals (Scale), truncating.  Energies and the    *)
(* threshold are multiples of 1e-6, delays are multiples of 1e-9 s (the    *)
(* factor 0.001 of base_delay), pressures are multiples of 1e-6.  TLC's    *)
(* integers are 32 bits wide, so products are taken in two halves (MulFP). *)
(*                                                                         *)
(* Python values.  An argument of calculate_temporal_resonance is either   *)
(* an int (the loop variable) or a float (layer + i/10: true division      *)
(* always yields a float).  The model keeps the type beside the value,     *)
(* because Python's list indexing accepts the first and raises TypeError   *)
(* on the second.                                                          *)
(***************************************************************************)
EXTENDS Integers, Sequences, FiniteSets, TLC

\* ------------------------------------------------------------ arithmetic

\* One unit of the fixed-point representation is 1/Scale.
Scale == 1000 * 1000

\* floor(a * b / Scale) for 0 <= a, 0 <= b, without leaving 32 bits.
MulFP(a, b) ==
    LET hi == a \div 1000
        lo == a % 1000
    IN  (hi * b + (lo * b) \div 1000) \div 1000

\* floor(r * Scale / p) for 0 <= r < p < 2^14, by long division.
FracFP(r, p) ==
    LET q1 == (r * 1000) \div p
        r1 == (r * 1000) % p
    IN  q1 * 1000 + (r1 * 1000) \div p

\* The alternating series 1 - x + x^2/2! - ... from its k-th term on.
RECURSIVE ExpSeries(_, _, _)
ExpSeries(x, k, term) ==
    IF term = 0 THEN 0
    ELSE term - ExpSeries(x, k + 1, MulFP(term, x) \div (k + 1))

\* np.exp(-x) for a fixed-point x >= 0.
np_exp_neg(x) == ExpSeries(x, 0, Scale)

\* ------------------------------------------------------------- constants

\* CTT_ALPHA = 0.0302011, in units of 1e-7.
CTT_ALPHA == 302011

CTT_LAYERS == 33

\* The layer whose energy defines the threshold: np.exp(-CTT_ALPHA * 32).
THRESHOLD_LAYER == 32

\* CTT_ALPHA * d in fixed point, d given in tenths of a layer.
AlphaTimes(tenths) == (CTT_ALPHA * tenths) \div 100

CTT_SINGULARITY_THRESHOLD == np_exp_neg(AlphaTimes(10 * THRESHOLD_LAYER))

\* The pressure threshold 0.1 of simulate_io_uring_resonance.
PRESSURE_THRESHOLD == 100000

primes == <<10007, 10009, 10037>>

\* --------------------------------------------------------- Python values

PyInt(v) == [isint |-> TRUE, tenths |-> 10 * v]

\* layer + i/10
PyFloatSubLayer(l, i) == [isint |-> FALSE, tenths |-> 10 * l + i]

Returned(v) == [raised |-> FALSE, value |-> v]
TypeError == [raised |-> TRUE, value |-> 0]

\* seq[idx] for a Python list: an index that is not an int raises TypeError.
ListIndex(seq, idx) ==
    IF idx.isint THEN Returned(seq[(idx.tenths \div 10) + 1]) ELSE TypeError

\* x % m keeps the type of x (int % int is an int, float % int is a float).
PyMod(x, m) == [isint |-> x.isint, tenths |-> x.tenths % (10 * m)]

\* ------------------------------------------------------ pure computations

\* The decay with the layer dropped from the exponent.
theorem_4_2_energy_decay_NoLayer(self_energy, d) ==
    MulFP(self_energy, np_exp_neg(AlphaTimes(10)))

\* theorem_4_2_energy_decay: self.energy * np.exp(-CTT_ALPHA * layer).
theorem_4_2_energy_decay(self_energy, d) ==
    MulFP(self_energy, np_exp_neg(AlphaTimes(10 * d)))

\* calculate_temporal_resonance: the delay in units of 1e-9 s, or TypeError
\* from primes[current_layer % len(primes)].  microsecond is the clock sample
\* int(time.time() * 1e6), read after the prime has been selected.
calculate_temporal_resonance(current_layer, microsecond) ==
    LET base_delay == np_exp_neg(AlphaTimes(current_layer.tenths))
        prime == ListIndex(primes, PyMod(current_layer, Len(primes)))
    IN  IF prime.raised THEN TypeError
        ELSE LET prime_alignment ==
                     FracFP(microsecond % prime.value, prime.value)
             IN  Returned(base_delay + MulFP(base_delay, prime_alignment) \div 10)

\* range(int(layer_energy * 100)): the number of completion events.
BatchSize(e) == e \div (Scale \div 100)

\* pressure = layer_energy * completion_delay * 1000
Pressure(e, delay) == MulFP(e, delay)

\* trigger_resonance_cascade: prints, and returns whether the pressure is
\* critical; it assigns nothing.
trigger_resonance_cascade(pressure, flag) ==
    pressure > CTT_SINGULARITY_THRESHOLD /\ ~flag

\* The phase-transition check of the layer loop.
PhaseTransitionCondition_NoFlag(e, t, flag) == e <= t

PhaseTransitionCondition(e, t, flag) == e <= t /\ ~flag

\* trigger_kernel_phase_transition returns transition_success, which is True.
trigger_kernel_phase_transition_Fails == FALSE

trigger_kernel_phase_transition == TRUE

\* The branch of the results analysis.
ReportKind_ByFlag(triggered, flag) == IF flag THEN "success" ELSE "failure"

ReportKind(triggered, flag) == IF triggered THEN "success" ELSE "failure"

\* ------------------------------------------------------------------ state

\* Bounds of the model.
MaxRuns == 2

\* self.energy when a run starts: the constructor's 1.0, and values below
\* 0.01 (the attribute is public and execute_temporal_singularity reads it);
\* below 0.01 every event batch is empty.
InitialEnergies == {Scale, 9000, 5000}

\* The module-level threshold: the program's value, 0 (no layer reaches it)
\* and a value some middle layer reaches from a small initial energy.
Thresholds == {CTT_SINGULARITY_THRESHOLD, 0, 3000}

\* Samples of the wall clock, int(time.time() * 1e6).
ClockSamples == {0, 10006, 10036, 1234567}

VARIABLES
    energy,                      \* self.energy
    self_layer,                  \* self.layer
    converged,                   \* self.converged
    threshold,                   \* CTT_SINGULARITY_THRESHOLD
    pc,                          \* position in execute_temporal_singularity
    layer,                       \* the loop variable
    layer_energy,
    batch,                       \* the range of the event loop
    i,                           \* the event loop's variable
    completions,
    all_completions,
    phase_transition_triggered,
    resonance_delay,
    result,                      \* the value execute_temporal_singularity returned
    patterns,                    \* what deploy_quantum_sovereign_link returned
    runs,                        \* calls of execute_temporal_singularity so far
    reports,                     \* summaries printed by the current run
    triggers,                    \* trigger_kernel_phase_transition calls, current run
    sleeps,                      \* time.sleep calls, current run
    cascades                     \* what trigger_resonance_cascade returned, current run

fields == <<energy, self_layer, converged, threshold>>
locals == <<layer, layer_energy, batch, i, completions, all_completions,
            phase_transition_triggered, resonance_delay>>
outputs == <<result, patterns>>
history == <<runs, reports, triggers, sleeps, cascades>>
vars == <<fields, pc, locals, outputs, history>>

\* __init__, and the module constants.
Init ==
    /\ energy \in InitialEnergies
    /\ self_layer = 0
    /\ converged = FALSE
    /\ threshold \in Thresholds
    /\ pc = "idle"
    /\ layer = 0
    /\ layer_energy = 0
    /\ batch = 0
    /\ i = 0
    /\ completions = <<>>
    /\ all_completions = <<>>
    /\ phase_transition_triggered = FALSE
    /\ resonance_delay = 0
    /\ result = FALSE
    /\ patterns = <<>>
    /\ runs = 0
    /\ reports = <<>>
    /\ triggers = 0
    /\ sleeps = 0
    /\ cascades = <<>>

\* ---------------------------------------------------------------- actions

\* execute_temporal_singularity is called: the banner, then
\* all_completions = [], phase_transition_triggered = False, and the loop
\* for layer in range(CTT_LAYERS) takes its first value.
Execute ==
    /\ pc \in {"idle", "returned"}
    /\ runs < MaxRuns
    /\ runs' = runs + 1
    /\ pc' = "layer"
    /\ layer' = 0
    /\ layer_energy' = 0
    /\ batch' = 0
    /\ i' = 0
    /\ completions' = <<>>
    /\ all_completions' = <<>>
    /\ phase_transition_triggered' = FALSE
    /\ resonance_delay' = 0
    /\ reports' = <<>>
    /\ triggers' = 0
    /\ sleeps' = 0
    /\ cascades' = <<>>
    /\ UNCHANGED <<fields, outputs>>

\* layer_energy = self.theorem_4_2_energy_decay(layer)
ComputeLayerEnergy ==
    /\ pc = "layer"
    /\ layer_energy' = theorem_4_2_energy_decay(energy, layer)
    /\ pc' = "simulate"
    /\ UNCHANGED <<fields, layer, batch, i, completions, all_completions,
                   phase_transition_triggered, resonance_delay, outputs, history>>

\* simulate_io_uring_resonance(layer) is entered: completions = [] and the
\* event loop's range is fixed.
SimulateBegin ==
    /\ pc = "simulate"
    /\ batch' = BatchSize(theorem_4_2_energy_decay(energy, layer))
    /\ i' = 0
    /\ completions' = <<>>
    /\ pc' = "events"
    /\ UNCHANGED <<fields, layer, layer_energy, all_completions,
                   phase_transition_triggered, resonance_delay, outputs, history>>

\* One pass of the event loop's body.  The delay is computed first; when it
\* raises, the exception leaves simulate_io_uring_resonance and
\* execute_temporal_singularity (nothing catches it).  Otherwise the entry is
\* appended and, at every tenth index, the pressure is sampled.
SimulateEvent ==
    /\ pc = "events"
    /\ i < batch
    /\ \E microsecond \in ClockSamples :
         LET e == theorem_4_2_energy_decay(energy, layer)
             completion_delay ==
                 calculate_temporal_resonance(PyFloatSubLayer(layer, i), microsecond)
             pressure == Pressure(e, completion_delay.value)
             cqe == [layer |-> layer, submission |-> i, energy |-> e,
                     delay |-> completion_delay.value]
         IN  IF completion_delay.raised
             THEN /\ pc' = "error"
                  /\ UNCHANGED <<i, completions, cascades>>
             ELSE /\ completions' = Append(completions, cqe)
                  /\ cascades' =
                        IF i % 10 = 0 /\ pressure > PRESSURE_THRESHOLD
                        THEN Append(cascades,
                                    trigger_resonance_cascade(pressure, converged))
                        ELSE cascades
                  /\ i' = i + 1
                  /\ pc' = "events"
    /\ UNCHANGED <<fields, layer, layer_energy, batch, all_completions,
                   phase_transition_triggered, resonance_delay, outputs,
                   runs, reports, triggers, sleeps>>

\* The event loop is exhausted: return completions, and the caller's
\* all_completions.extend(completions).
SimulateReturn ==
    /\ pc = "events"
    /\ i >= batch
    /\ all_completions' = all_completions \o completions
    /\ pc' = "check"
    /\ UNCHANGED <<fields, layer, layer_energy, batch, i, completions,
                   phase_transition_triggered, resonance_delay, outputs, history>>

\* if layer_energy <= CTT_SINGULARITY_THRESHOLD and not self.converged
CheckThreshold ==
    /\ pc = "check"
    /\ pc' = IF PhaseTransitionCondition(layer_energy, threshold, converged)
             THEN "trigger" ELSE "sleep"
    /\ UNCHANGED <<fields, locals, outputs, history>>

\* The payload is crafted and trigger_kernel_phase_transition(layer, payload)
\* is called; its result is assigned to phase_transition_triggered.
TriggerKernelPhaseTransition ==
    /\ pc = "trigger"
    /\ triggers' = triggers + 1
    /\ phase_transition_triggered' = trigger_kernel_phase_transition
    /\ pc' = "triggered"
    /\ UNCHANGED <<fields, layer, layer_energy, batch, i, completions,
                   all_completions, resonance_delay, outputs,
                   runs, reports, sleeps, cascades>>

\* if phase_transition_triggered: self.converged = True; break
AfterTrigger ==
    /\ pc = "triggered"
    /\ IF phase_transition_triggered
       THEN /\ converged' = TRUE
            /\ pc' = "report"
       ELSE /\ converged' = converged
            /\ pc' = "sleep"
    /\ UNCHANGED <<energy, self_layer, threshold, locals, outputs, history>>

\* resonance_delay = self.calculate_temporal_resonance(layer);
\* time.sleep(resonance_delay); then the loop takes its next value or ends.
SleepBetweenLayers ==
    /\ pc = "sleep"
    /\ \E microsecond \in ClockSamples :
         LET d == calculate_temporal_resonance(PyInt(layer), microsecond)
         IN  IF d.raised
             THEN /\ pc' = "error"
                  /\ UNCHANGED <<resonance_delay, sleeps, layer>>
             ELSE /\ resonance_delay' = d.value
                  /\ sleeps' = sleeps + 1
                  /\ IF layer + 1 < CTT_LAYERS
                     THEN layer' = layer + 1 /\ pc' = "layer"
                     ELSE layer' = layer /\ pc' = "report"
    /\ UNCHANGED <<fields, layer_energy, batch, i, completions, all_completions,
                   phase_transition_triggered, outputs,
                   runs, reports, triggers, cascades>>

\* The results analysis, and return phase_transition_triggered.
Report ==
    /\ pc = "report"
    /\ reports' = Append(reports, ReportKind(phase_transition_triggered, converged))
    /\ result' = phase_transition_triggered
    /\ pc' = "returned"
    /\ UNCHANGED <<fields, locals, patterns, runs, triggers, sleeps, cascades>>

\* deploy_quantum_sovereign_link, which the entry point calls after a
\* successful run: one pattern per layer (the phase and the frequency are
\* only reported and are left out).
DeployQuantumSovereignLink ==
    /\ pc = "returned"
    /\ result
    /\ patterns = <<>>
    /\ patterns' = [k \in 1..CTT_LAYERS |->
                      [layer |-> k - 1,
                       energy |-> theorem_4_2_energy_decay(energy, k - 1),
                       pattern |-> IF (k - 1) % 2 = 0 THEN 170 ELSE 85]]
    /\ UNCHANGED <<fields, pc, locals, result, history>>

Next ==
    \/ Execute
    \/ ComputeLayerEnergy
    \/ SimulateBegin
    \/ SimulateEvent
    \/ SimulateReturn
    \/ CheckThreshold
    \/ TriggerKernelPhaseTransition
    \/ AfterTrigger
    \/ SleepBetweenLayers
    \/ Report
    \/ DeployQuantumSovereignLink

Spec == Init /\ [][Next]_vars

\* ----------------------------------------------------------------- claims

RunEnded == pc \in {"returned", "error"}

FixedConstants == energy = Scale /\ threshold = CTT_SINGULARITY_THRESHOLD

\* C1: with the fixed constants (initial energy 1.0, threshold the energy of
\* layer 32), the first run on a fresh instance converges exactly at layer
\* 32: the flag is false in layers 0..31, the run does not fail, and when it
\* has returned it returned true with the flag set at layer 32.
C1_ConvergesAtLayer32 ==
    (FixedConstants /\ runs = 1) =>
        /\ pc # "error"
        /\ (layer < THRESHOLD_LAYER => ~converged)
        /\ (pc = "returned" => result /\ converged /\ layer = THRESHOLD_LAYER)

\* C2: under the fixed constants no computation of the layer loop fails
\* (decay, jitter at layer + i/10, batch generation, pressure sampling), so
\* the loop never ends in an error.
C2_NoComputationFails ==
    FixedConstants => pc # "error"

\* C3: the convergence flag, once true, stays true; the terminal trigger is
\* invoked at most once in a run; and while the flag is true no layer
\* invokes the trigger, whatever its energy.
C3_ConvergesAtMostOnce ==
    [][ /\ (converged => converged')
        /\ (converged => triggers' <= triggers)
        /\ triggers' <= 1 ]_vars

\* C3 witness: in a second run the flag is already true, a layer's energy is
\* at or below the threshold, its check is over and the trigger was not
\* invoked.
C3_Witness ==
    /\ runs = 2
    /\ converged
    /\ pc = "sleep"
    /\ layer_energy <= threshold
    /\ triggers = 0

\* C4: the terminal trigger fires iff the flag goes from false to true: the
\* trigger is invoked only while the flag is false, the step after an
\* invocation sets the flag in the same layer, and the flag is set by no
\* other step.
C4_TriggerIffFlagTransition ==
    [][ /\ (triggers' = triggers + 1 => ~converged /\ pc' = "triggered")
        /\ (pc = "triggered" => ~converged /\ converged' /\ layer' = layer)
        /\ (~converged /\ converged' => pc = "triggered" /\ layer' = layer) ]_vars

\* C4 witness: after some layers that slept, the trigger was invoked once and
\* the flag is true.
C4_Witness ==
    /\ pc = "report"
    /\ layer > 0
    /\ triggers = 1
    /\ converged

\* C5: when the threshold is below the energy of every layer, the run does
\* not fail, the flag stays false, the trigger is never invoked, and the run
\* returns false after all CTT_LAYERS layers with the failure report.
C5_Exhaustion ==
    (threshold < theorem_4_2_energy_decay(energy, CTT_LAYERS - 1)) =>
        /\ pc # "error"
        /\ ~converged
        /\ triggers = 0
        /\ (pc = "returned" =>
               /\ ~result
               /\ reports = <<"failure">>
               /\ layer = CTT_LAYERS - 1
               /\ sleeps = CTT_LAYERS)

\* C6: every run ends with exactly one summary, the success report iff the
\* convergence flag is true at the end of the run.
C6_ExactlyOneReport ==
    RunEnded =>
        /\ Len(reports) = 1
        /\ (reports[1] = "success" <=> converged)

C8_DecayStrictlyDecreasing ==
    LET E == [d \in 0..(CTT_LAYERS - 1) |-> theorem_4_2_energy_decay(energy, d)]
    IN  /\ E[0] = energy
        /\ \A d \in 1..(CTT_LAYERS - 1) :
              /\ E[d] < E[d - 1]
              /\ (E[d - 1] <= threshold => E[d] <= threshold)
        /\ (pc \in {"simulate", "events", "check"} => layer_energy = E[layer])

\* C8 witness: the run is at the first layer whose energy is at or below the
\* threshold, and it is not layer 0.
C8_Witness ==
    /\ pc = "check"
    /\ layer > 0
    /\ layer_energy <= threshold
    /\ theorem_4_2_energy_decay(energy, layer - 1) > threshold

\* C9: in a run on a fresh instance every layer that does not converge is
\* followed by exactly one sleep, and the converging layer by none: when the
\* run has ended the sleeps are the layers entered less the converging one,
\* and once the flag is true the run is past the loop.
C9_SleepAfterEachNonConvergingLayer ==
    runs = 1 =>
        /\ (RunEnded => sleeps = (layer + 1) - triggers)
        /\ (converged => pc \in {"report", "returned"} /\ sleeps = layer)

\* C10: in a run that starts with the flag already true (an earlier run of
\* the instance converged) the trigger is not invoked, the run does not
\* break or fail, and it returns false with the failure report after all
\* CTT_LAYERS layers.
C10_SecondRunNeverTriggers ==
    (runs >= 2 /\ converged) =>
        /\ triggers = 0
        /\ ~phase_transition_triggered
        /\ pc \notin {"trigger", "triggered", "error"}
        /\ (pc = "returned" =>
               /\ ~result
               /\ reports = <<"failure">>
               /\ layer = CTT_LAYERS - 1
               /\ sleeps = CTT_LAYERS)

\* C10 witness: the second run has returned and the flag is true.
C10_Witness ==
    /\ runs = 2
    /\ converged
    /\ pc = "returned"
    /\ sleeps = CTT_LAYERS

====
